---- MODULE Spec2Model ----
(***************************************************************************)
(* Model of zquantum.core.bitstring_distribution.                          *)
(*                                                                         *)
(* Python objects are modelled with a heap: `heap` is the sequence of the  *)
(* dict objects that exist (an address is an index of it), and an entity   *)
(* (a BitstringDistribution) holds the ADDRESS of its distribution_dict,   *)
(* as the code stores the reference it is given (self.distribution_dict =  *)
(* input_dict).  A dict is a function from keys to weights.  A key is a    *)
(* sequence of one-character strings.                                      *)
(*                                                                         *)
(* A weight is a number [n, d, sub] standing for (n/d) when sub is FALSE   *)
(* and for (n/d) * 2^-1074 (a multiple of the smallest subnormal double)   *)
(* when sub is TRUE.  Arithmetic on the ordinary numbers is exact rational *)
(* arithmetic: the rounding of IEEE doubles is not modelled, except that   *)
(* an ordinary number absorbs a subnormal one added to it.                 *)
(***************************************************************************)
EXTENDS Integers, Sequences, FiniteSets, TLC

VARIABLES heap, entities, files, input, result

vars == <<heap, entities, files, input, result>>

(***************************************************************************)
(* Bounds of the model.                                                    *)
(***************************************************************************)
MaxKeys == 2        \* keys of a caller-supplied mapping
MaxEntities == 2    \* entities constructed in one behaviour
MaxProbLen == 4     \* length of a probability vector
MaxSamples == 3     \* measurement samples in one call
MaxQubits == 2      \* length of one sampled bit-tuple

(***************************************************************************)
(* Numbers.                                                                *)
(***************************************************************************)
Abs(x) == IF x < 0 THEN -x ELSE x

MaxInt(a, b) == IF a >= b THEN a ELSE b

RECURSIVE GCD(_, _)
GCD(a, b) == IF b = 0 THEN a ELSE GCD(b, a % b)

\* The number n/d (d > 0) in lowest terms.
Num(n, d, s) ==
    LET g == GCD(Abs(n), d)
    IN  IF n = 0 THEN [n |-> 0, d |-> 1, sub |-> FALSE]
        ELSE [n |-> n \div g, d |-> d \div g, sub |-> s]

Q(n, d) == Num(n, d, FALSE)

Zero == Q(0, 1)

One == Q(1, 1)

\* k times the smallest positive subnormal double, 2^-1074 (1e-320 is 2024 of them).
Tiny(k) == Num(k, 1, TRUE)

IsZero(x) == x.n = 0

\* x + y.  Numbers of the two scales: the ordinary one absorbs the subnormal one.
Add(x, y) ==
    IF IsZero(x) THEN y
    ELSE IF IsZero(y) THEN x
    ELSE IF x.sub = y.sub THEN Num(x.n * y.d + y.n * x.d, x.d * y.d, x.sub)
    ELSE IF x.sub THEN y ELSE x

\* x * y, for at most one subnormal factor.
Mul(x, y) == Num(x.n * y.n, x.d * y.d, x.sub \/ y.sub)

\* 1./x for an ordinary x # 0.
Inv(x) == IF x.n > 0 THEN Num(x.d, x.n, x.sub) ELSE Num(-x.d, -x.n, x.sub)

Neg(x) == Num(-x.n, x.d, x.sub)

\* x <= y.  A unit fraction 1/E on either side is compared without a product
\* by E, which is beyond 32-bit integers for E = 10^9.
Leq(x, y) ==
    IF x.sub = y.sub
    THEN IF x.n = 1 /\ y.n >= 0
         THEN (y.d + x.d - 1) \div x.d <= y.n
         ELSE IF y.n = 1 /\ x.n >= 0
         THEN x.n <= x.d \div y.d
         ELSE x.n * y.d <= y.n * x.d
    ELSE IF x.sub THEN y.n > 0 \/ (y.n = 0 /\ x.n <= 0)
    ELSE x.n < 0 \/ (x.n = 0 /\ y.n >= 0)

MaxNum(x, y) == IF Leq(x, y) THEN y ELSE x

(***************************************************************************)
(* Dicts and the validators.                                               *)
(***************************************************************************)
EmptyDict == << >>

Values(d) == {d[k] : k \in DOMAIN d}

\* sum(d.values()) over the keys ks of d.
RECURSIVE SumOver(_, _)
SumOver(d, ks) ==
    IF ks = {} THEN Zero
    ELSE LET k == CHOOSE x \in ks : TRUE
         IN  Add(d[k], SumOver(d, ks \ {k}))

SumValues(d) == SumOver(d, DOMAIN d)

is_non_negative(input_dict) == \A k \in DOMAIN input_dict : input_dict[k].n >= 0

\* list(input_dict.keys())[0] raises IndexError on an empty dict.
is_key_length_fixed_raises(input_dict) == DOMAIN input_dict = {}

is_key_length_fixed(input_dict) ==
    LET key_length == Len(CHOOSE k \in DOMAIN input_dict : TRUE)
    IN  \A key \in DOMAIN input_dict : Len(key) = key_length

are_keys_binary_strings(input_dict) ==
    \A key \in DOMAIN input_dict :
        ~ \E i \in 1..Len(key) : key[i] \notin {"1", "0"}

\* The conjunction, evaluated left to right as Python's `and` does: "True",
\* "False", or "IndexError" when is_key_length_fixed is reached on an empty dict.
is_bitstring_distribution(input_dict) ==
    IF ~ is_non_negative(input_dict) THEN "False"
    ELSE IF is_key_length_fixed_raises(input_dict) THEN "IndexError"
    ELSE IF ~ is_key_length_fixed(input_dict) THEN "False"
    ELSE IF ~ are_keys_binary_strings(input_dict) THEN "False"
    ELSE "True"

\* 1 / rel_tol of math.isclose (rel_tol = 1e-09, abs_tol = 0.0).
RelTolInv == 1000000000

\* math.isclose(norm, 1): abs(norm - 1) <= rel_tol * max(abs(norm), 1).
isclose_one(norm) ==
    /\ ~ norm.sub
    /\ Abs(norm.n - norm.d) <= MaxInt(Abs(norm.n), norm.d) \div RelTolInv

is_normalized(input_dict) == isclose_one(SumValues(input_dict))

(***************************************************************************)
(* Normalization.  The outcome of a call is a record: exc is "none" or the *)
(* exception raised, msg its message, dict the contents of the dict object *)
(* after the call (the loop of the last branch rescales it in place).      *)
(***************************************************************************)
MsgEmpty == "Normalization of BitstringDistribution FAILED: input dict is empty (all zero values)."

MsgTooSmall == "Normalization of BitstringDistribution FAILED: too small values."

MsgNotDistribution == "Initialization of BitstringDistribution object FAILED: the input dictionary is not a bitstring probability distribution. Check keys (same-length binary strings) and values (non-negative floats)."

MsgIndex == "list index out of range"

\* 0 < norm < sys.float_info.min (2^-1022): the subnormal numbers of the model.
below_float_min(norm) == norm.n > 0 /\ norm.sub

\* A variant that rescales by norm, not by 1/norm.
normalize_times_norm(bitstring_distribution) ==
    LET norm == SumValues(bitstring_distribution)
    IN  IF IsZero(norm)
        THEN [exc |-> "ValueError", msg |-> MsgEmpty, dict |-> bitstring_distribution]
        ELSE IF below_float_min(norm)
        THEN [exc |-> "ValueError", msg |-> MsgTooSmall, dict |-> bitstring_distribution]
        ELSE [exc |-> "none", msg |-> "",
              dict |-> [key \in DOMAIN bitstring_distribution |->
                          Mul(bitstring_distribution[key], norm)]]

\* A variant without the test for a zero sum: the dict comes back as it is.
normalize_no_zero_test(bitstring_distribution) ==
    LET norm == SumValues(bitstring_distribution)
    IN  IF IsZero(norm) \/ norm = One
        THEN [exc |-> "none", msg |-> "", dict |-> bitstring_distribution]
        ELSE IF below_float_min(norm)
        THEN [exc |-> "ValueError", msg |-> MsgTooSmall, dict |-> bitstring_distribution]
        ELSE [exc |-> "none", msg |-> "",
              dict |-> [key \in DOMAIN bitstring_distribution |->
                          Mul(bitstring_distribution[key], Inv(norm))]]

normalize_bitstring_distribution(bitstring_distribution) ==
    LET norm == SumValues(bitstring_distribution)
    IN  IF IsZero(norm)
        THEN [exc |-> "ValueError", msg |-> MsgEmpty, dict |-> bitstring_distribution]
        ELSE IF below_float_min(norm)
        THEN [exc |-> "ValueError", msg |-> MsgTooSmall, dict |-> bitstring_distribution]
        ELSE IF norm = One
        THEN [exc |-> "none", msg |-> "", dict |-> bitstring_distribution]
        ELSE [exc |-> "none", msg |-> "",
              dict |-> [key \in DOMAIN bitstring_distribution |->
                          Mul(bitstring_distribution[key], Inv(norm))]]

(***************************************************************************)
(* BitstringDistribution.__init__.  created: the entity exists afterwards; *)
(* warnings: the calls of warnings.warn; dict: the contents of input_dict  *)
(* after the call.                                                         *)
(***************************************************************************)
\* A variant that ignores the normalize flag and always normalizes.
init_always_normalizes(input_dict, normalize) ==
    LET wf == is_bitstring_distribution(input_dict)
        nr == normalize_bitstring_distribution(input_dict)
    IN  IF wf = "IndexError"
        THEN [exc |-> "IndexError", msg |-> MsgIndex, created |-> FALSE,
              warnings |-> 0, dict |-> input_dict]
        ELSE IF wf = "False"
        THEN [exc |-> "RuntimeError", msg |-> MsgNotDistribution, created |-> FALSE,
              warnings |-> 0, dict |-> input_dict]
        ELSE IF is_normalized(input_dict)
        THEN [exc |-> "none", msg |-> "", created |-> TRUE,
              warnings |-> 0, dict |-> input_dict]
        ELSE [exc |-> nr.exc, msg |-> nr.msg, created |-> nr.exc = "none",
              warnings |-> 0, dict |-> nr.dict]

BitstringDistribution_init(input_dict, normalize) ==
    LET wf == is_bitstring_distribution(input_dict)
        nr == normalize_bitstring_distribution(input_dict)
    IN  IF wf = "IndexError"
        THEN [exc |-> "IndexError", msg |-> MsgIndex, created |-> FALSE,
              warnings |-> 0, dict |-> input_dict]
        ELSE IF wf = "False"
        THEN [exc |-> "RuntimeError", msg |-> MsgNotDistribution, created |-> FALSE,
              warnings |-> 0, dict |-> input_dict]
        ELSE IF is_normalized(input_dict)
        THEN [exc |-> "none", msg |-> "", created |-> TRUE,
              warnings |-> 0, dict |-> input_dict]
        ELSE IF normalize
        THEN [exc |-> nr.exc, msg |-> nr.msg, created |-> nr.exc = "none",
              warnings |-> 0, dict |-> nr.dict]
        ELSE [exc |-> "none", msg |-> "", created |-> TRUE,
              warnings |-> 1, dict |-> input_dict]

\* get_qubits_number: the length of the first key.
get_qubits_number(d) == Len(CHOOSE k \in DOMAIN d : TRUE)

(***************************************************************************)
(* Construction from a probability vector.                                 *)
(***************************************************************************)
Digit(b) == IF b = 0 THEN "0" ELSE "1"

\* format(state, 'b'): the binary digits of state, most significant first.
RECURSIVE format_b(_)
format_b(state) ==
    IF state < 2 THEN <<Digit(state)>>
    ELSE Append(format_b(state \div 2), Digit(state % 2))

\* while len(bitstring) < np.sqrt(n): bitstring = '0' + bitstring
RECURSIVE pad_to_sqrt(_, _)
pad_to_sqrt(bitstring, n) ==
    IF Len(bitstring) * Len(bitstring) < n
    THEN pad_to_sqrt(<<"0">> \o bitstring, n)
    ELSE bitstring

\* bitstring[::-1]
Reversed(bitstring) ==
    [i \in 1..Len(bitstring) |-> bitstring[Len(bitstring) + 1 - i]]

\* dict[key] = value
Put(dict, key, value) ==
    [k \in DOMAIN dict \cup {key} |-> IF k = key THEN value ELSE dict[k]]

\* prob_dict after the first `count` rounds of the loop over the states.
RECURSIVE prob_dict_after(_, _)
prob_dict_after(prob_distribution, count) ==
    IF count = 0 THEN EmptyDict
    ELSE Put(prob_dict_after(prob_distribution, count - 1),
             Reversed(pad_to_sqrt(format_b(count - 1), Len(prob_distribution))),
             prob_distribution[count])

\* dict: prob_dict as built; init: the outcome of BitstringDistribution(prob_dict).
create_bitstring_distribution_from_probability_distribution(prob_distribution) ==
    LET prob_dict == prob_dict_after(prob_distribution, Len(prob_distribution))
    IN  [dict |-> prob_dict, init |-> BitstringDistribution_init(prob_dict, TRUE)]

(***************************************************************************)
(* Construction from measurement samples.                                  *)
(***************************************************************************)
\* utils.convert_tuples_to_bitstrings: each tuple of bits as a string of digits.
convert_tuples_to_bitstrings(tuples) ==
    [i \in 1..Len(tuples) |-> [j \in 1..Len(tuples[i]) |-> Digit(tuples[i][j])]]

\* Counter(bitstring) after the first `count` elements.
RECURSIVE Counter(_, _)
Counter(bitstring, count) ==
    IF count = 0 THEN EmptyDict
    ELSE LET c == Counter(bitstring, count - 1)
             k == bitstring[count]
         IN  Put(c, k, IF k \in DOMAIN c THEN Add(c[k], One) ELSE One)

\* A variant that constructs the entity without normalization.
create_from_measurements_as_counts(measurements) ==
    LET bitstring == convert_tuples_to_bitstrings(measurements)
        bitstring_distribution == Counter(bitstring, Len(bitstring))
    IN  [dict |-> bitstring_distribution,
         init |-> BitstringDistribution_init(bitstring_distribution, FALSE)]

create_bitstring_distribution_from_measurements(measurements) ==
    LET bitstring == convert_tuples_to_bitstrings(measurements)
        bitstring_distribution == Counter(bitstring, Len(bitstring))
    IN  [dict |-> bitstring_distribution,
         init |-> BitstringDistribution_init(bitstring_distribution, TRUE)]

(***************************************************************************)
(* The distance evaluator.  A logarithm is not computed: the value of the  *)
(* likelihood is the linear form  sum of f[x] * ln(x)  over the arguments  *)
(* x in DOMAIN f, kept as the function f from arguments to coefficients.   *)
(* A term with coefficient 0, and a term in ln(1) = 0, adds nothing.       *)
(***************************************************************************)
ZeroForm == << >>

AddTerm(f, c, x) ==
    IF IsZero(c) \/ x = One THEN f
    ELSE Put(f, x, IF x \in DOMAIN f THEN Add(f[x], c) ELSE c)

NegForm(f) == [x \in DOMAIN f |-> Neg(f[x])]

\* dict.get(key, 0)
Get(dict, key) == IF key \in DOMAIN dict THEN dict[key] ELSE Zero

\* value after the loop has run over the keys of `keys`.
RECURSIVE nll_loop(_, _, _, _)
nll_loop(target, measured, epsilon, keys) ==
    IF keys = {} THEN ZeroForm
    ELSE LET bitstring == CHOOSE k \in keys : TRUE
             target_bitstring_value == Get(target, bitstring)
             measured_bitstring_value == Get(measured, bitstring)
         IN  AddTerm(nll_loop(target, measured, epsilon, keys \ {bitstring}),
                     target_bitstring_value,
                     MaxNum(epsilon, measured_bitstring_value))

MsgDomain == "math domain error"

\* A variant whose loop runs over the keys of the measured distribution only.
nll_over_measured_keys(target, measured, epsilon) ==
    LET all_keys == DOMAIN measured
    IN  IF \E k \in all_keys : MaxNum(epsilon, Get(measured, k)).n <= 0
        THEN [exc |-> "ValueError", msg |-> MsgDomain, value |-> ZeroForm]
        ELSE [exc |-> "none", msg |-> "",
              value |-> NegForm(nll_loop(target, measured, epsilon, all_keys))]

\* target, measured: the distribution_dict of the two entities.  math.log
\* raises ValueError for an argument that is not positive.
compute_clipped_negative_log_likelihood(target, measured, epsilon) ==
    LET all_keys == DOMAIN target \cup DOMAIN measured
    IN  IF \E k \in all_keys : MaxNum(epsilon, Get(measured, k)).n <= 0
        THEN [exc |-> "ValueError", msg |-> MsgDomain, value |-> ZeroForm]
        ELSE [exc |-> "none", msg |-> "",
              value |-> NegForm(nll_loop(target, measured, epsilon, all_keys))]

MsgType == "Arguments of evaluate_cost_function must be of type BitstringDistribution."

MsgLength == "Bitstring Distribution Distance Evaluation FAILED: target and measured distributions are defined on bitstrings of different length."

MsgNormalization == "Bitstring Distribution Distance Evaluation FAILED: one among target and measured distribution is normalized, whereas the other is not."

MsgNotImplemented == "Bitstring Distribution Distance Measure not implemented."

Failure(exc, msg) == [exc |-> exc, msg |-> msg, value |-> ZeroForm]

\* A variant without the check of the two normalization states.
evaluate_without_normalization_check(target_distr, measured_distr, distance_measure, epsilon) ==
    IF ~ target_distr.is_entity \/ ~ measured_distr.is_entity
    THEN Failure("TypeError", MsgType)
    ELSE IF get_qubits_number(target_distr.dict) # get_qubits_number(measured_distr.dict)
    THEN Failure("RuntimeError", MsgLength)
    ELSE IF distance_measure = "clipped_log_likelihood"
    THEN compute_clipped_negative_log_likelihood(target_distr.dict, measured_distr.dict, epsilon)
    ELSE Failure("RuntimeError", MsgNotImplemented)

\* An argument is an object: is_entity says whether it is a
\* BitstringDistribution, dict is its distribution_dict (for another object,
\* the dict it is).
evaluate_distribution_distance(target_distr, measured_distr, distance_measure, epsilon) ==
    IF ~ target_distr.is_entity \/ ~ measured_distr.is_entity
    THEN Failure("TypeError", MsgType)
    ELSE IF get_qubits_number(target_distr.dict) # get_qubits_number(measured_distr.dict)
    THEN Failure("RuntimeError", MsgLength)
    ELSE IF is_normalized(target_distr.dict) # is_normalized(measured_distr.dict)
    THEN Failure("RuntimeError", MsgNormalization)
    ELSE IF distance_measure = "clipped_log_likelihood"
    THEN compute_clipped_negative_log_likelihood(target_distr.dict, measured_distr.dict, epsilon)
    ELSE Failure("RuntimeError", MsgNotImplemented)

(***************************************************************************)
(* Persistence.  The JSON text of a dict is modelled by the sequence of    *)
(* its "key": value members; a number is written by repr and read back as  *)
(* the same number.                                                        *)
(***************************************************************************)
\* utils.SCHEMA_VERSION
SCHEMA_VERSION == "SCHEMA_VERSION"

\* json.dumps of a dict: its members, one after the other.
RECURSIVE json_dumps(_)
json_dumps(dict) ==
    IF DOMAIN dict = {} THEN << >>
    ELSE LET k == CHOOSE x \in DOMAIN dict : TRUE
         IN  <<[key |-> k, value |-> dict[k]]>>
                 \o json_dumps([x \in DOMAIN dict \ {k} |-> dict[x]])

\* json.load of the members of an object: a new dict, a later member
\* replacing an earlier one of the same key.
RECURSIVE json_load(_, _)
json_load(members, count) ==
    IF count = 0 THEN EmptyDict
    ELSE Put(json_load(members, count - 1), members[count].key, members[count].value)

\* The document save_bitstring_distribution writes.
save_bitstring_distribution(distribution_dict) ==
    [bitstring_distribution |-> json_dumps(distribution_dict),
     schema |-> <<SCHEMA_VERSION, "-bitstring-probability-distribution">>]

\* dict: data["bitstring_distribution"]; init: the outcome of
\* BitstringDistribution(data["bitstring_distribution"]).
load_bitstring_distribution(document) ==
    LET data == json_load(document.bitstring_distribution,
                          Len(document.bitstring_distribution))
    IN  [dict |-> data, init |-> BitstringDistribution_init(data, TRUE)]

(***************************************************************************)
(* The mappings a caller supplies: at most MaxKeys keys of KeyPool, each   *)
(* with a weight of WeightPool.  A mapping holds ordinary weights or       *)
(* subnormal ones (and zeros), never both kinds.                           *)
(***************************************************************************)
KeyPool == {<<"0">>, <<"1">>, <<"0", "0">>, <<"0", "1">>, <<"a">>}

WeightPool == {Q(-1, 1), Zero, Q(1, 2), One, Tiny(1)}

OneScale(d) ==
    ~ ( /\ \E k \in DOMAIN d : d[k].sub
        /\ \E k \in DOMAIN d : ~ d[k].sub /\ ~ IsZero(d[k]) )

Mappings(keys, weights) ==
    UNION { {d \in [ks -> weights] : OneScale(d)} :
            ks \in {x \in SUBSET keys : Cardinality(x) <= MaxKeys} }

MappingPool == Mappings(KeyPool, WeightPool)

NoInput == [kind |-> "none"]

Start == [op |-> "start"]

(***************************************************************************)
(* The caller constructs an entity from the dict object at address a.      *)
(* The entity keeps the reference: it holds the address, not a copy.       *)
(***************************************************************************)
Construct(a, normalize) ==
    /\ a \in 1..Len(heap)
    /\ Len(entities) < MaxEntities
    /\ LET r == BitstringDistribution_init(heap[a], normalize)
       IN  /\ heap' = [heap EXCEPT ![a] = r.dict]
           /\ entities' = IF r.created THEN Append(entities, a) ELSE entities
           /\ result' = [op |-> "init", addr |-> a, normalize |-> normalize,
                         before |-> heap[a], exc |-> r.exc, msg |-> r.msg,
                         created |-> r.created, warnings |-> r.warnings,
                         count |-> Len(entities)]
    /\ UNCHANGED <<files, input>>

(***************************************************************************)
(* The caller normalizes the dict object at address a with the free        *)
(* function; the function returns the object it was given.                 *)
(***************************************************************************)
Normalize(a) ==
    /\ a \in 1..Len(heap)
    /\ LET r == normalize_bitstring_distribution(heap[a])
       IN  /\ heap' = [heap EXCEPT ![a] = r.dict]
           /\ result' = [op |-> "normalize", addr |-> a, before |-> heap[a],
                         exc |-> r.exc, msg |-> r.msg]
    /\ UNCHANGED <<entities, files, input>>

(***************************************************************************)
(* Construction and normalization of one caller-supplied mapping.          *)
(***************************************************************************)
Init ==
    /\ heap \in {<<d>> : d \in MappingPool}
    /\ entities = << >>
    /\ files = << >>
    /\ input = NoInput
    /\ result = Start

Next ==
    \/ \E a \in 1..Len(heap), normalize \in BOOLEAN : Construct(a, normalize)
    \/ \E a \in 1..Len(heap) : Normalize(a)

Spec == Init /\ [][Next]_vars

(***************************************************************************)
(* The two factory functions, each applied to the caller's input.  The     *)
(* dict they build is a new object; it stays reachable (through the        *)
(* entity) only when the constructor succeeds.                             *)
(***************************************************************************)
ProbPool == {Zero, Q(1, 4), Q(1, 2)}

BitTuples == UNION {[1..n -> {0, 1}] : n \in 0..MaxQubits}

SeqsUpTo(S, n) == UNION {[1..k -> S] : k \in 0..n}

CreateInputs ==
    {[kind |-> "probs", probs |-> p] : p \in SeqsUpTo(ProbPool, MaxProbLen)}
    \cup {[kind |-> "samples", samples |-> m] : m \in SeqsUpTo(BitTuples, MaxSamples)}

Created(op, c) ==
    /\ Len(entities) < MaxEntities
    /\ heap' = IF c.init.created THEN Append(heap, c.init.dict) ELSE heap
    /\ entities' = IF c.init.created THEN Append(entities, Len(heap) + 1) ELSE entities
    /\ result' = [op |-> op, addr |-> Len(heap) + 1, before |-> c.dict,
                  exc |-> c.init.exc, msg |-> c.init.msg,
                  created |-> c.init.created, warnings |-> c.init.warnings,
                  count |-> Len(entities)]
    /\ UNCHANGED <<files, input>>

CreateFromProbabilityDistribution ==
    /\ input.kind = "probs"
    /\ Created("from_probs",
               create_bitstring_distribution_from_probability_distribution(input.probs))

CreateFromMeasurements ==
    /\ input.kind = "samples"
    /\ Created("from_measurements",
               create_bitstring_distribution_from_measurements(input.samples))

InitCreate ==
    /\ heap = << >>
    /\ entities = << >>
    /\ files = << >>
    /\ input \in CreateInputs
    /\ result = Start

NextCreate ==
    \/ CreateFromProbabilityDistribution
    \/ CreateFromMeasurements

SpecCreate == InitCreate /\ [][NextCreate]_vars

(***************************************************************************)
(* The distance between two entities.  The initial states are those after  *)
(* the caller has built a target and a measured mapping and constructed an *)
(* entity from each (an entity exists where the constructor succeeded).    *)
(***************************************************************************)
DistKeys == {<<"0">>, <<"1">>, <<"0", "0">>}

DistWeights == {Zero, Q(1, 2), One}

\* 1 / epsilon of the default epsilon=1e-9.
DefaultEpsilonInv == 1000000000

EpsilonPool == {Q(1, DefaultEpsilonInv), Q(1, 2), Zero}

MeasurePool == {"clipped_log_likelihood", "other"}

\* The objects a caller can pass: entity e (1..Len(entities)), or 0 for the
\* plain dict at address 1, which is no BitstringDistribution.
Object(e) ==
    IF e = 0 THEN [is_entity |-> FALSE, dict |-> heap[1]]
    ELSE [is_entity |-> TRUE, dict |-> heap[entities[e]]]

DistanceInputs(n) ==
    {[kind |-> "distance", target |-> t, measured |-> m,
      distance_measure |-> dm, epsilon |-> eps] :
        t \in 0..n, m \in 0..n, dm \in MeasurePool, eps \in EpsilonPool}
    \cup {[kind |-> "likelihood", target |-> t, measured |-> m, epsilon |-> eps] :
        t \in 1..n, m \in 1..n, eps \in EpsilonPool}

EvaluateDistance ==
    /\ input.kind = "distance"
    /\ LET r == evaluate_distribution_distance(Object(input.target),
                    Object(input.measured), input.distance_measure, input.epsilon)
       IN  result' = [op |-> "evaluate", before |-> heap,
                      exc |-> r.exc, msg |-> r.msg, value |-> r.value]
    /\ UNCHANGED <<heap, entities, files, input>>

\* A direct call of the strategy on two entities.
ComputeLikelihood ==
    /\ input.kind = "likelihood"
    /\ LET r == compute_clipped_negative_log_likelihood(Object(input.target).dict,
                    Object(input.measured).dict, input.epsilon)
       IN  result' = [op |-> "likelihood", before |-> heap,
                      exc |-> r.exc, msg |-> r.msg, value |-> r.value]
    /\ UNCHANGED <<heap, entities, files, input>>

InitDist ==
    \E d1 \in Mappings(DistKeys, DistWeights), d2 \in Mappings(DistKeys, DistWeights),
       n1 \in BOOLEAN, n2 \in BOOLEAN :
        LET r1 == BitstringDistribution_init(d1, n1)
            r2 == BitstringDistribution_init(d2, n2)
        IN  /\ heap = <<r1.dict, r2.dict>>
            /\ entities = (IF r1.created THEN <<1>> ELSE << >>)
                              \o (IF r2.created THEN <<2>> ELSE << >>)
            /\ files = << >>
            /\ input \in DistanceInputs(Len(entities))
            /\ result = Start

NextDist ==
    \/ EvaluateDistance
    \/ ComputeLikelihood

SpecDist == InitDist /\ [][NextDist]_vars

(***************************************************************************)
(* Saving an entity to a file and loading a file.  A file keeps, beside    *)
(* the document, a snapshot of the mapping the entity held when it was     *)
(* saved (history, read by no action).                                     *)
(***************************************************************************)
FileNames == {"distribution.json"}

Save(e, f) ==
    /\ e \in 1..Len(entities)
    /\ files' = Put(files, f,
                    [document |-> save_bitstring_distribution(heap[entities[e]]),
                     saved |-> heap[entities[e]]])
    /\ result' = [op |-> "save", entity |-> e, file |-> f]
    /\ UNCHANGED <<heap, entities, input>>

Load(f) ==
    /\ f \in DOMAIN files
    /\ Len(entities) < MaxEntities
    /\ LET c == load_bitstring_distribution(files[f].document)
       IN  /\ heap' = IF c.init.created THEN Append(heap, c.init.dict) ELSE heap
           /\ entities' = IF c.init.created THEN Append(entities, Len(heap) + 1)
                          ELSE entities
           /\ result' = [op |-> "load", file |-> f, addr |-> Len(heap) + 1,
                         before |-> c.dict, exc |-> c.init.exc, msg |-> c.init.msg,
                         created |-> c.init.created, warnings |-> c.init.warnings,
                         count |-> Len(entities)]
    /\ UNCHANGED <<files, input>>

NextIO ==
    \/ \E a \in 1..Len(heap), normalize \in BOOLEAN : Construct(a, normalize)
    \/ \E e \in 1..Len(entities), f \in FileNames : Save(e, f)
    \/ \E f \in FileNames : Load(f)

SpecIO == Init /\ [][NextIO]_vars

(***************************************************************************)
(* The words of the claims, stated without the operators of the code.      *)
(***************************************************************************)
Empty(d) == DOMAIN d = {}

MixedLength(d) == \E j, k \in DOMAIN d : Len(j) # Len(k)

NonBinary(d) == \E k \in DOMAIN d : \E i \in 1..Len(k) : k[i] # "0" /\ k[i] # "1"

NegativeWeight(d) == \E k \in DOMAIN d : d[k].n < 0

IllFormed(d) == Empty(d) \/ MixedLength(d) \/ NonBinary(d) \/ NegativeWeight(d)

WellFormed(d) == ~ IllFormed(d)

\* The sum of the weights of d, positive and at least sys.float_info.min.
NormalSum(d) == SumValues(d).n > 0 /\ ~ SumValues(d).sub

\* Every weight of d is the weight of b divided by the sum s of b.
DividedBy(d, b, s) ==
    /\ DOMAIN d = DOMAIN b
    /\ \A k \in DOMAIN b : Mul(d[k], s) = b[k]

IsInit == result.op = "init"

\* C1: constructing from an ill-formed mapping (empty, mixed key lengths, a
\* non-binary character, a negative weight) fails with the RuntimeError of
\* __init__, for either flag, and creates no entity.
C1_IllFormedRaisesRuntimeError ==
    (IsInit /\ IllFormed(result.before)) =>
        /\ result.exc = "RuntimeError"
        /\ result.msg = MsgNotDistribution
        /\ ~ result.created
        /\ Len(entities) = result.count

\* C2 as stated: a well-formed mapping with a positive sum S, constructed with
\* normalize=true, is stored with every weight divided by S, and sums to 1.
C2_PositiveSumNormalizes ==
    (IsInit /\ result.normalize /\ WellFormed(result.before)
        /\ SumValues(result.before).n > 0) =>
        /\ result.exc = "none"
        /\ result.created
        /\ DividedBy(heap[result.addr], result.before, SumValues(result.before))
        /\ ~ NegativeWeight(heap[result.addr])
        /\ SumValues(heap[result.addr]) = One

\* C2 amended: the same for a sum S that is at least sys.float_info.min; a
\* positive sum below it fails with the 'too small values' ValueError.
C2_NormalSumNormalizes ==
    (IsInit /\ result.normalize /\ WellFormed(result.before)) =>
        /\ NormalSum(result.before) =>
              /\ result.exc = "none"
              /\ result.created
              /\ entities = Append(SubSeq(entities, 1, result.count), result.addr)
              /\ DividedBy(heap[result.addr], result.before, SumValues(result.before))
              /\ ~ NegativeWeight(heap[result.addr])
              /\ SumValues(heap[result.addr]) = One
        /\ (SumValues(result.before).n > 0 /\ ~ NormalSum(result.before)) =>
              /\ result.exc = "ValueError"
              /\ result.msg = MsgTooSmall
              /\ ~ result.created

C2_Witness ==
    /\ IsInit /\ result.normalize /\ WellFormed(result.before)
    /\ NormalSum(result.before)
    /\ SumValues(result.before) # One
    /\ Cardinality(DOMAIN result.before) > 1
    /\ result.created

\* C8: a well-formed mapping whose weights do not sum to 1, constructed with
\* normalize=false, is stored unchanged with exactly one warning and the entity
\* is un-normalized; no warning when the mapping is normalized or the flag is true.
C8_OptOutWarnsOnce ==
    IsInit =>
        /\ (WellFormed(result.before) /\ SumValues(result.before) # One
                /\ ~ result.normalize) =>
              /\ result.exc = "none"
              /\ result.created
              /\ entities = Append(SubSeq(entities, 1, result.count), result.addr)
              /\ heap[result.addr] = result.before
              /\ result.warnings = 1
              /\ SumValues(heap[result.addr]) # One
        /\ (result.normalize \/ SumValues(result.before) = One) =>
              result.warnings = 0

C8_Witness ==
    /\ IsInit /\ ~ result.normalize /\ WellFormed(result.before)
    /\ SumValues(result.before) # One
    /\ result.warnings = 1

\* C9: normalizing a mapping whose weights sum to 0 fails with the 'empty'
\* ValueError and leaves the mapping unchanged; through the constructor with
\* normalize=true the failure propagates and no entity is created.
C9_ZeroSumFails ==
    /\ (result.op = "normalize" /\ IsZero(SumValues(result.before))) =>
          /\ result.exc = "ValueError"
          /\ result.msg = MsgEmpty
          /\ heap[result.addr] = result.before
    /\ (IsInit /\ result.normalize /\ WellFormed(result.before)
            /\ IsZero(SumValues(result.before))) =>
          /\ result.exc = "ValueError"
          /\ result.msg = MsgEmpty
          /\ ~ result.created
          /\ Len(entities) = result.count
          /\ heap[result.addr] = result.before

C9_Witness ==
    /\ IsInit /\ result.normalize /\ WellFormed(result.before)
    /\ IsZero(SumValues(result.before))
    /\ result.exc = "ValueError"

\* C10: constructing an entity never changes the keys or weights held by an
\* entity constructed before, also when both are built from the same mapping.
C10_EntitiesIndependent ==
    [][(\E a \in 1..Len(heap), normalize \in BOOLEAN : Construct(a, normalize)) =>
          \A e \in 1..Len(entities) : heap'[entities[e]] = heap[entities[e]]]_vars

\* 2^n
RECURSIVE Pow2(_)
Pow2(n) == IF n = 0 THEN 1 ELSE 2 * Pow2(n - 1)

\* The key of index i over L qubits: the least significant bit of i comes first.
BitKey(i, L) == [j \in 1..L |-> IF (i \div Pow2(j - 1)) % 2 = 0 THEN "0" ELSE "1"]

\* C3: for a probability vector of length 2^L (L >= 1, so that an index has a
\* digit to render) from which an entity is produced, the mapping built has
\* exactly 2^L keys, each of length L, and the key of index i is the reversed zero-padded
\* L-digit binary rendering of i, mapped to probs[i].
C3_KeysAreReversedBinary ==
    (result.op = "from_probs" /\ result.created) =>
        \A L \in 1..MaxProbLen :
            (Len(input.probs) = Pow2(L)) =>
                /\ Cardinality(DOMAIN result.before) = Pow2(L)
                /\ \A k \in DOMAIN result.before : Len(k) = L
                /\ \A i \in 0..(Pow2(L) - 1) :
                      /\ BitKey(i, L) \in DOMAIN result.before
                      /\ result.before[BitKey(i, L)] = input.probs[i + 1]

\* The key k renders the bit-tuple t.
Renders(k, t) ==
    /\ Len(k) = Len(t)
    /\ \A j \in 1..Len(t) : (t[j] = 0 /\ k[j] = "0") \/ (t[j] = 1 /\ k[j] = "1")

Occurrences(samples, k) ==
    Cardinality({i \in 1..Len(samples) : Renders(k, samples[i])})

EqualLength(samples) == \A i, j \in 1..Len(samples) : Len(samples[i]) = Len(samples[j])

\* C4: from a non-empty sequence of equal-length bit-tuples the entity holds
\* exactly the distinct sampled bitstrings, each with the weight
\* occurrences / number of samples, and the weights sum to 1.
C4_MeasurementsGiveFrequencies ==
    (result.op = "from_measurements" /\ Len(input.samples) > 0
        /\ EqualLength(input.samples)) =>
        /\ result.exc = "none"
        /\ result.created
        /\ entities = Append(SubSeq(entities, 1, result.count), result.addr)
        /\ LET d == heap[result.addr]
               total == Len(input.samples)
           IN  /\ \A i \in 1..total : \E k \in DOMAIN d : Renders(k, input.samples[i])
               /\ \A k \in DOMAIN d :
                     /\ Occurrences(input.samples, k) > 0
                     /\ d[k] = Q(Occurrences(input.samples, k), total)
               /\ SumValues(d) = One

C4_Witness ==
    /\ result.op = "from_measurements"
    /\ EqualLength(input.samples)
    /\ Len(input.samples) = 3
    /\ result.created
    /\ Cardinality(DOMAIN heap[result.addr]) = 2

TargetDict == heap[entities[input.target]]

MeasuredDict == heap[entities[input.measured]]

BothEntities == input.target # 0 /\ input.measured # 0

SameQubits == \A j \in DOMAIN TargetDict, k \in DOMAIN MeasuredDict : Len(j) = Len(k)

SameNormalization == (SumValues(TargetDict) = One) <=> (SumValues(MeasuredDict) = One)

Recognized == input.distance_measure = "clipped_log_likelihood"

Fails(exc, msg) == result.exc = exc /\ result.msg = msg /\ result.value = ZeroForm

\* C5: evaluate_distance returns a value only when the four preconditions hold;
\* the failure is that of the first violated one (type, then qubit count, then
\* normalization, then strategy), each with a message of its own, and a
\* failure carries no value.
C5_PreconditionFailures ==
    (result.op = "evaluate") =>
        /\ result.exc = "none" =>
              BothEntities /\ SameQubits /\ SameNormalization /\ Recognized
        /\ ~ BothEntities => Fails("TypeError", MsgType)
        /\ (BothEntities /\ ~ SameQubits) => Fails("RuntimeError", MsgLength)
        /\ (BothEntities /\ SameQubits /\ ~ SameNormalization) =>
              Fails("RuntimeError", MsgNormalization)
        /\ (BothEntities /\ SameQubits /\ SameNormalization /\ ~ Recognized) =>
              Fails("RuntimeError", MsgNotImplemented)
        /\ result.exc # "none" => result.value = ZeroForm
        /\ Cardinality({MsgType, MsgLength, MsgNormalization, MsgNotImplemented}) = 4
        /\ heap = result.before

C5_Witness ==
    /\ result.op = "evaluate"
    /\ BothEntities /\ SameQubits /\ ~ SameNormalization /\ Recognized
    /\ Fails("RuntimeError", MsgNormalization)

\* The weight of key k in d, 0 for an absent key.
Weight(d, k) == IF k \in DOMAIN d THEN d[k] ELSE Zero

\* max(epsilon, w)
Clip(epsilon, w) == IF Leq(w, epsilon) THEN epsilon ELSE w

Coef(f, x) == IF x \in DOMAIN f THEN f[x] ELSE Zero

\* The keys of either distribution whose clipped measured weight is x.
KeysWithArgument(x) ==
    {k \in DOMAIN TargetDict \cup DOMAIN MeasuredDict :
        Clip(input.epsilon, Weight(MeasuredDict, k)) = x}

\* C6: for two entities and epsilon > 0 the likelihood is minus the sum, over
\* the keys of either distribution, of target[k] * ln(max(epsilon, measured[k])),
\* an absent key weighing 0: for every argument x # 1 of the logarithm, the
\* coefficient of ln(x) is minus the sum of target[k] over the keys k with
\* max(epsilon, measured[k]) = x.  Neither mapping is modified.
C6_LikelihoodFormula ==
    (result.op = "likelihood" /\ input.epsilon.n > 0) =>
        /\ result.exc = "none"
        /\ One \notin DOMAIN result.value
        /\ \A x \in DOMAIN result.value \cup
                    {Clip(input.epsilon, Weight(MeasuredDict, k)) :
                        k \in DOMAIN TargetDict \cup DOMAIN MeasuredDict} :
              (x # One) =>
                  Coef(result.value, x) =
                      Neg(SumOver(TargetDict, KeysWithArgument(x) \cap DOMAIN TargetDict))
        /\ heap = result.before

C6_Witness ==
    /\ result.op = "likelihood" /\ input.epsilon.n > 0
    /\ \E k \in DOMAIN TargetDict \ DOMAIN MeasuredDict : ~ IsZero(TargetDict[k])
    /\ \E k \in DOMAIN MeasuredDict : Leq(input.epsilon, MeasuredDict[k])
                                        /\ MeasuredDict[k] # input.epsilon
                                        /\ MeasuredDict[k] # One
                                        /\ ~ IsZero(Weight(TargetDict, k))
    /\ Cardinality(DOMAIN result.value) = 2

\* C7: saving an entity and loading the saved document yields an entity whose
\* mapping has the keys and the weights the saved entity had, also for an
\* entity that holds un-normalized weights.
C7_SaveLoadRoundTrip ==
    (result.op = "load") =>
        /\ result.created
        /\ entities = Append(SubSeq(entities, 1, result.count), result.addr)
        /\ heap[result.addr] = files[result.file].saved

====
